---- MODULE Spec2Model ----
(***************************************************************************)
(* A model of stego_gui.py: the container format                           *)
(*     carrier ++ MARKER ++ META_LEN (4 bytes, big-endian) ++ METADATA     *)
(*             ++ PAYLOAD                                                  *)
(* with its two operations embed_file and extract_file and the marker      *)
(* locator _locate_embedded_chunks they share, over a small filesystem.    *)
(*                                                                         *)
(* A byte is a number in 0..255, a byte string a sequence of bytes, a text *)
(* (Python str) a sequence of code points.  A decoded JSON value is a      *)
(* record [t |-> tag, v |-> content].                                      *)
(***************************************************************************)
EXTENDS Integers, Sequences, FiniteSets, TLC

\* ------------------------------------------------------------------------
\* Constants of the program
\* ------------------------------------------------------------------------

\* b"STEG_GUI_V1"
MARKER == <<83, 84, 69, 71, 95, 71, 85, 73, 95, 86, 49>>

META_LEN_SIZE == 4

\* The directory every combined file is written to (Evil_Files).
OUTPUT_DIR == "E"

\* ------------------------------------------------------------------------
\* Sequences
\* ------------------------------------------------------------------------

\* Python's s[a:b] for 0 <= a, 0 <= b (0-based, end-exclusive, clipped).
Slice(s, a, b) ==
  LET e == IF b > Len(s) THEN Len(s) ELSE b
  IN  IF a >= e THEN <<>> ELSE SubSeq(s, a + 1, e)

\* Whether sub occurs in s at 0-based position i.
OccursAt(s, sub, i) ==
  /\ i >= 0
  /\ i + Len(sub) <= Len(s)
  /\ \A k \in 1..Len(sub) : s[i + k] = sub[k]

\* The greatest element of the set S of integers, or none when S is empty.
MaxOr(S, none) == IF S = {} THEN none ELSE CHOOSE i \in S : \A j \in S : j <= i

\* bytes.find(sub, start, end): the lowest such index, or -1.
find(s, sub, start, end) ==
  0 - MaxOr({0 - i : i \in {j \in start..((IF end > Len(s) THEN Len(s) ELSE end) - Len(sub)) :
                              OccursAt(s, sub, j)}}, 1)

\* bytes.rfind(sub, start, end): the highest 0-based index i with
\* start <= i and i + len(sub) <= end where sub occurs, or -1.
rfind(s, sub, start, end) ==
  MaxOr({i \in start..((IF end > Len(s) THEN Len(s) ELSE end) - Len(sub)) :
           OccursAt(s, sub, i)}, 0 - 1)

RECURSIVE Concat(_)
Concat(ss) == IF ss = <<>> THEN <<>> ELSE Head(ss) \o Concat(Tail(ss))

RECURSIVE SumSeq(_)
SumSeq(ns) == IF ns = <<>> THEN 0 ELSE Head(ns) + SumSeq(Tail(ns))

\* ------------------------------------------------------------------------
\* struct.pack(">I", n) and struct.unpack(">I", b)
\* ------------------------------------------------------------------------

pack_I(n) ==
  << (n \div 16777216) % 256, (n \div 65536) % 256, (n \div 256) % 256, n % 256 >>

unpack_I(b) == ((b[1] * 256 + b[2]) * 256 + b[3]) * 256 + b[4]

\* ------------------------------------------------------------------------
\* UTF-8
\* ------------------------------------------------------------------------

IsCont(b) == b >= 128 /\ b <= 191

\* bytes.decode("utf-8") from 1-based position i on, strict:
\* [ok |-> FALSE] is UnicodeDecodeError.
\* The first position from i on that holds a byte above 127, or Len(b) + 1.
ascii_end(b, i) ==
  0 - MaxOr({0 - j : j \in {k \in i..Len(b) : b[k] >= 128}}, 0 - (Len(b) + 1))

RECURSIVE utf8_decode_from(_, _, _)
utf8_decode_from(b, i, acc) ==
  IF i > Len(b) THEN [ok |-> TRUE, text |-> acc]
  ELSE LET c == b[i] IN
    IF c < 128
    THEN utf8_decode_from(b, ascii_end(b, i),
                          acc \o SubSeq(b, i, ascii_end(b, i) - 1))
    ELSE IF c >= 194 /\ c <= 223 THEN
      IF i + 1 <= Len(b) /\ IsCont(b[i + 1])
      THEN utf8_decode_from(b, i + 2,
             Append(acc, (c - 192) * 64 + (b[i + 1] - 128)))
      ELSE [ok |-> FALSE, text |-> <<>>]
    ELSE IF c >= 224 /\ c <= 239 THEN
      IF /\ i + 2 <= Len(b)
         /\ IsCont(b[i + 1]) /\ IsCont(b[i + 2])
         /\ (c = 224 => b[i + 1] >= 160)
         /\ (c = 237 => b[i + 1] <= 159)
      THEN utf8_decode_from(b, i + 3,
             Append(acc, ((c - 224) * 64 + (b[i + 1] - 128)) * 64
                         + (b[i + 2] - 128)))
      ELSE [ok |-> FALSE, text |-> <<>>]
    ELSE IF c >= 240 /\ c <= 244 THEN
      IF /\ i + 3 <= Len(b)
         /\ IsCont(b[i + 1]) /\ IsCont(b[i + 2]) /\ IsCont(b[i + 3])
         /\ (c = 240 => b[i + 1] >= 144)
         /\ (c = 244 => b[i + 1] <= 143)
      THEN utf8_decode_from(b, i + 4,
             Append(acc, (((c - 240) * 64 + (b[i + 1] - 128)) * 64
                          + (b[i + 2] - 128)) * 64 + (b[i + 3] - 128)))
      ELSE [ok |-> FALSE, text |-> <<>>]
    ELSE [ok |-> FALSE, text |-> <<>>]

utf8_decode(b) == utf8_decode_from(b, 1, <<>>)

\* ------------------------------------------------------------------------
\* JSON values
\* ------------------------------------------------------------------------

JNull      == [t |-> "null", v |-> 0]
JBool(b)   == [t |-> "bool", v |-> IF b THEN 1 ELSE 0]
JInt(n)    == [t |-> "int", v |-> n]
JFloat     == [t |-> "float", v |-> 0]
JStr(s)    == [t |-> "str", v |-> s]
JList(xs)  == [t |-> "list", v |-> xs]
\* An object is its (key, value) pairs in document order.
JObj(ps)   == [t |-> "dict", v |-> ps]
Pair(k, x) == [k |-> k, x |-> x]

\* Text of the keys the program reads and writes.
K_files    == <<102, 105, 108, 101, 115>>
K_count    == <<99, 111, 117, 110, 116>>
K_filename == <<102, 105, 108, 101, 110, 97, 109, 101>>
K_size     == <<115, 105, 122, 101>>

\* The value json.loads keeps for a key: the last pair that carries it.
\* None (a missing key, for dict.get) is [t |-> "none"].
PyNone == [t |-> "none", v |-> 0]
pair_value(d, i) == IF i = 0 THEN PyNone ELSE d.v[i].x

dict_get(d, key) ==
  pair_value(d, MaxOr({i \in 1..Len(d.v) : d.v[i].k = key}, 0))

\* isinstance(x, str), isinstance(x, int) (a bool is an int in Python),
\* isinstance(x, list).
is_str(x)  == x.t = "str"
is_int(x)  == x.t \in {"int", "bool"}
is_list(x) == x.t = "list"
\* The number an int stands for; True holds 1 and False holds 0.
int_of(x) == x.v

is_dict(x) == x.t = "dict"

\* ------------------------------------------------------------------------
\* json.loads (the pure-Python scanner of the standard library), on a text
\* ------------------------------------------------------------------------

IsWs(c)    == c \in {32, 9, 10, 13}
IsDigit(c) == c >= 48 /\ c <= 57

RECURSIVE skip_ws(_, _)
skip_ws(s, i) == IF i <= Len(s) /\ IsWs(s[i]) THEN skip_ws(s, i + 1) ELSE i

RECURSIVE digits_end(_, _)
digits_end(s, i) ==
  IF i <= Len(s) /\ IsDigit(s[i]) THEN digits_end(s, i + 1) ELSE i

\* The number written by the digits s[i..e-1].
RECURSIVE digits_value(_, _, _, _)
digits_value(s, i, e, acc) ==
  IF i >= e THEN acc ELSE digits_value(s, i + 1, e, acc * 10 + (s[i] - 48))

ParseFail     == [ok |-> FALSE, val |-> JNull, end |-> 0]
ParseOk(v, e) == [ok |-> TRUE, val |-> v, end |-> e]

\* NUMBER_RE = (-?(?:0|[1-9][0-9]*))(\.[0-9]+)?([eE][-+]?[0-9]+)? matched at
\* position i: the integer part from j0 to jint, the fraction to jfr, the
\* exponent to jexp.  A fraction or an exponent makes the number a float.
int_end(s, j0) == IF s[j0] = 48 THEN j0 + 1 ELSE digits_end(s, j0)

frac_end(s, jint) ==
  IF jint + 1 <= Len(s) /\ s[jint] = 46 /\ IsDigit(s[jint + 1])
  THEN digits_end(s, jint + 1) ELSE jint

\* k is the position after "e" or "E".
exp_digits_end(s, jfr, k) ==
  IF k <= Len(s) /\ IsDigit(s[k]) THEN digits_end(s, k) ELSE jfr

exp_end(s, jfr) ==
  IF jfr <= Len(s) /\ s[jfr] \in {101, 69}
  THEN exp_digits_end(s, jfr,
         IF jfr + 1 <= Len(s) /\ s[jfr + 1] \in {43, 45} THEN jfr + 2 ELSE jfr + 1)
  ELSE jfr

number_value(s, neg, j0, jint, jexp) ==
  IF jexp > jint THEN ParseOk(JFloat, jexp)
  ELSE IF neg THEN ParseOk(JInt(0 - digits_value(s, j0, jint, 0)), jint)
  ELSE ParseOk(JInt(digits_value(s, j0, jint, 0)), jint)

number_from(s, neg, j0, jint) ==
  number_value(s, neg, j0, jint, exp_end(s, frac_end(s, jint)))

number_at(s, neg, j0) ==
  IF j0 > Len(s) \/ ~IsDigit(s[j0]) THEN ParseFail
  ELSE number_from(s, neg, j0, int_end(s, j0))

match_number(s, i) ==
  IF i <= Len(s) /\ s[i] = 45 THEN number_at(s, TRUE, i + 1)
  ELSE number_at(s, FALSE, i)

HexVal(c) ==
  IF c >= 48 /\ c <= 57 THEN c - 48
  ELSE IF c >= 97 /\ c <= 102 THEN c - 87
  ELSE IF c >= 65 /\ c <= 70 THEN c - 55
  ELSE 0 - 1

\* The code point of the four hex digits at s[i..i+3], or -1.
hex4(s, i) ==
  IF i + 3 > Len(s) \/ \E k \in 0..3 : HexVal(s[i + k]) < 0 THEN 0 - 1
  ELSE ((HexVal(s[i]) * 16 + HexVal(s[i + 1])) * 16 + HexVal(s[i + 2])) * 16
       + HexVal(s[i + 3])

\* The character a one-letter escape stands for, or -1.
escape_char(e) ==
  IF e \in {34, 92, 47} THEN e
  ELSE IF e = 98  THEN 8
  ELSE IF e = 102 THEN 12
  ELSE IF e = 110 THEN 10
  ELSE IF e = 114 THEN 13
  ELSE IF e = 116 THEN 9
  ELSE 0 - 1

\* scanstring(s, i) in strict mode: i is the position after the opening
\* quote; the result's end is the position after the closing quote.
\* scan_u reads the escape \uXXXX at i, of value u; u2 is the value of a
\* \uXXXX that follows it (or -1), which completes a surrogate pair.
RECURSIVE scanstring(_, _, _)
scan_u(s, i, acc, u, u2) ==
  IF u < 0 THEN ParseFail
  ELSE IF u >= 55296 /\ u <= 56319 /\ u2 >= 56320 /\ u2 <= 57343
  THEN scanstring(s, i + 12,
         Append(acc, 65536 + (u - 55296) * 1024 + (u2 - 56320)))
  ELSE scanstring(s, i + 6, Append(acc, u))

scanstring(s, i, acc) ==
  IF i > Len(s) THEN ParseFail
  ELSE IF s[i] = 34 THEN [ok |-> TRUE, val |-> acc, end |-> i + 1]
  ELSE IF s[i] = 92 THEN
    IF i + 1 > Len(s) THEN ParseFail
    ELSE IF s[i + 1] = 117 THEN
      scan_u(s, i, acc, hex4(s, i + 2),
             IF i + 7 <= Len(s) /\ s[i + 6] = 92 /\ s[i + 7] = 117
             THEN hex4(s, i + 8) ELSE 0 - 1)
    ELSE IF escape_char(s[i + 1]) < 0 THEN ParseFail
    ELSE scanstring(s, i + 2, Append(acc, escape_char(s[i + 1])))
  ELSE IF s[i] < 32 THEN ParseFail
  ELSE scanstring(s, i + 1, Append(acc, s[i]))

\* Whether the text lit stands at position i of s.
LitAt(s, i, lit) == OccursAt(s, lit, i - 1)

L_null     == <<110, 117, 108, 108>>
L_true     == <<116, 114, 117, 101>>
L_false    == <<102, 97, 108, 115, 101>>
L_NaN      == <<78, 97, 78>>
L_Infinity == <<73, 110, 102, 105, 110, 105, 116, 121>>

RECURSIVE scan_once(_, _)
RECURSIVE parse_members(_, _, _)
RECURSIVE parse_elements(_, _, _)

\* JSONObject.  parse_object: j is the first position after "{" that holds
\* no white space.  parse_members reads one "key": value pair and what
\* follows it; i is the position after the key's opening quote.
parse_object(s, j) ==
  IF j > Len(s) THEN ParseFail
  ELSE IF s[j] = 125 THEN ParseOk(JObj(<<>>), j + 1)
  ELSE IF s[j] # 34 THEN ParseFail
  ELSE parse_members(s, j + 1, <<>>)

\* After "," at the position before j4: the next key must follow.
members_next(s, j4, acc2) ==
  IF j4 > Len(s) \/ s[j4] # 34 THEN ParseFail
  ELSE parse_members(s, j4 + 1, acc2)

\* After a pair: "}" ends the object, "," announces another pair.
members_after(s, j3, acc2) ==
  IF j3 > Len(s) THEN ParseFail
  ELSE IF s[j3] = 125 THEN ParseOk(JObj(acc2), j3 + 1)
  ELSE IF s[j3] # 44 THEN ParseFail
  ELSE members_next(s, skip_ws(s, j3 + 1), acc2)

members_value(s, acc, key, val) ==
  IF ~val.ok THEN ParseFail
  ELSE members_after(s, skip_ws(s, val.end), Append(acc, Pair(key.val, val.val)))

\* j is the first position after the key that holds no white space.
members_colon(s, acc, key, j) ==
  IF j > Len(s) \/ s[j] # 58 THEN ParseFail
  ELSE members_value(s, acc, key, scan_once(s, skip_ws(s, j + 1)))

members_key(s, acc, key) ==
  IF ~key.ok THEN ParseFail
  ELSE members_colon(s, acc, key, skip_ws(s, key.end))

parse_members(s, i, acc) == members_key(s, acc, scanstring(s, i, <<>>))

\* JSONArray.  parse_array: j is the first position after "[" that holds no
\* white space.  parse_elements reads one value, at i, and what follows it.
parse_array(s, j) ==
  IF j > Len(s) THEN ParseFail
  ELSE IF s[j] = 93 THEN ParseOk(JList(<<>>), j + 1)
  ELSE parse_elements(s, j, <<>>)

elements_after(s, j, acc2) ==
  IF j > Len(s) THEN ParseFail
  ELSE IF s[j] = 93 THEN ParseOk(JList(acc2), j + 1)
  ELSE IF s[j] # 44 THEN ParseFail
  ELSE parse_elements(s, skip_ws(s, j + 1), acc2)

elements_value(s, acc, val) ==
  IF ~val.ok THEN ParseFail
  ELSE elements_after(s, skip_ws(s, val.end), Append(acc, val.val))

parse_elements(s, i, acc) == elements_value(s, acc, scan_once(s, i))

string_value(r) == IF r.ok THEN ParseOk(JStr(r.val), r.end) ELSE ParseFail

\* What scan_once tries once the text is no string, object, array, null,
\* true or false: a number (num is the match of NUMBER_RE), then NaN,
\* Infinity and -Infinity.
number_or_constant(s, i, num) ==
  IF num.ok THEN num
  ELSE IF s[i] = 78 /\ LitAt(s, i, L_NaN) THEN ParseOk(JFloat, i + 3)
  ELSE IF s[i] = 73 /\ LitAt(s, i, L_Infinity) THEN ParseOk(JFloat, i + 8)
  ELSE IF s[i] = 45 /\ LitAt(s, i + 1, L_Infinity) THEN ParseOk(JFloat, i + 9)
  ELSE ParseFail

scan_once(s, i) ==
  IF i > Len(s) THEN ParseFail
  ELSE IF s[i] = 34 THEN string_value(scanstring(s, i + 1, <<>>))
  ELSE IF s[i] = 123 THEN parse_object(s, skip_ws(s, i + 1))
  ELSE IF s[i] = 91 THEN parse_array(s, skip_ws(s, i + 1))
  ELSE IF s[i] = 110 /\ LitAt(s, i, L_null) THEN ParseOk(JNull, i + 4)
  ELSE IF s[i] = 116 /\ LitAt(s, i, L_true) THEN ParseOk(JBool(TRUE), i + 4)
  ELSE IF s[i] = 102 /\ LitAt(s, i, L_false) THEN ParseOk(JBool(FALSE), i + 5)
  ELSE number_or_constant(s, i, match_number(s, i))

\* The value must be followed by white space only.
loads_result(s, r) ==
  IF r.ok /\ skip_ws(s, r.end) = Len(s) + 1
  THEN [ok |-> TRUE, val |-> r.val]
  ELSE [ok |-> FALSE, val |-> JNull]

\* json.loads(text): [ok |-> FALSE] is JSONDecodeError.
json_loads(s) == loads_result(s, scan_once(s, skip_ws(s, 1)))

\* ------------------------------------------------------------------------
\* json.dumps (default separators, ensure_ascii) and str.encode("utf-8")
\* ------------------------------------------------------------------------

HexDigit(n) == IF n < 10 THEN 48 + n ELSE 87 + n

\* \uXXXX
esc_u(c) ==
  <<92, 117, HexDigit((c \div 4096) % 16), HexDigit((c \div 256) % 16),
    HexDigit((c \div 16) % 16), HexDigit(c % 16)>>

esc_char(c) ==
  IF c = 34 THEN <<92, 34>>
  ELSE IF c = 92 THEN <<92, 92>>
  ELSE IF c = 10 THEN <<92, 110>>
  ELSE IF c = 13 THEN <<92, 114>>
  ELSE IF c = 9  THEN <<92, 116>>
  ELSE IF c = 8  THEN <<92, 98>>
  ELSE IF c = 12 THEN <<92, 102>>
  ELSE IF c >= 32 /\ c <= 126 THEN <<c>>
  ELSE IF c < 65536 THEN esc_u(c)
  ELSE esc_u(55296 + ((c - 65536) \div 1024))
       \o esc_u(56320 + ((c - 65536) % 1024))

dumps_str(s) == <<34>> \o Concat([i \in 1..Len(s) |-> esc_char(s[i])]) \o <<34>>

RECURSIVE dumps_nat(_)
dumps_nat(n) ==
  IF n < 10 THEN <<48 + n>> ELSE dumps_nat(n \div 10) \o <<48 + (n % 10)>>

dumps_int(n) == IF n < 0 THEN <<45>> \o dumps_nat(0 - n) ELSE dumps_nat(n)

\* The items joined by ", ".
RECURSIVE join_items(_)
join_items(items) ==
  IF items = <<>> THEN <<>>
  ELSE IF Len(items) = 1 THEN items[1]
  ELSE items[1] \o <<44, 32>> \o join_items(Tail(items))

RECURSIVE json_dumps(_)
json_dumps(x) ==
  IF x.t = "int" THEN dumps_int(x.v)
  ELSE IF x.t = "str" THEN dumps_str(x.v)
  ELSE IF x.t = "bool" THEN (IF x.v = 1 THEN L_true ELSE L_false)
  ELSE IF x.t = "list" THEN
    <<91>> \o join_items([i \in 1..Len(x.v) |-> json_dumps(x.v[i])]) \o <<93>>
  ELSE IF x.t = "dict" THEN
    <<123>>
    \o join_items([i \in 1..Len(x.v) |->
         dumps_str(x.v[i].k) \o <<58, 32>> \o json_dumps(x.v[i].x)])
    \o <<125>>
  ELSE L_null

utf8_encode_char(c) ==
  IF c < 128 THEN <<c>>
  ELSE IF c < 2048 THEN <<192 + (c \div 64), 128 + (c % 64)>>
  ELSE IF c < 65536 THEN
    <<224 + (c \div 4096), 128 + ((c \div 64) % 64), 128 + (c % 64)>>
  ELSE <<240 + (c \div 262144), 128 + ((c \div 4096) % 64),
         128 + ((c \div 64) % 64), 128 + (c % 64)>>

\* str.encode("utf-8"): a run of ASCII characters is that run of bytes.
RECURSIVE utf8_encode(_)
utf8_encode(s) ==
  IF \A i \in 1..Len(s) : s[i] < 128 THEN s
  ELSE utf8_encode_char(Head(s)) \o utf8_encode(Tail(s))

\* ------------------------------------------------------------------------
\* _locate_embedded_chunks
\* ------------------------------------------------------------------------

SkipCandidate == [valid |-> FALSE, metadata |-> JNull, payload_bytes |-> <<>>]

\* Lines 163-169: the metadata slice decoded and parsed.
candidate_parsed(data, meta_bytes_end, parsed) ==
  IF ~parsed.ok THEN SkipCandidate
  ELSE [valid |-> TRUE, metadata |-> parsed.val,
        payload_bytes |-> Slice(data, meta_bytes_end, Len(data))]

candidate_text(data, meta_bytes_end, text) ==
  IF ~text.ok THEN SkipCandidate
  ELSE candidate_parsed(data, meta_bytes_end, json_loads(text.text))

\* Lines 156-162.
candidate_meta(data, meta_bytes_start, meta_len) ==
  IF meta_len <= 0 \/ meta_bytes_start + meta_len > Len(data) THEN SkipCandidate
  ELSE candidate_text(data, meta_bytes_start + meta_len,
         utf8_decode(Slice(data, meta_bytes_start, meta_bytes_start + meta_len)))

\* The body of the loop for the candidate whose marker ends at meta_start
\* (lines 152-169): the candidate is either skipped or returned with its
\* metadata and the bytes after it.
candidate_at(data, meta_start) ==
  IF Len(data) < meta_start + META_LEN_SIZE THEN SkipCandidate
  ELSE candidate_meta(data, meta_start + META_LEN_SIZE,
         unpack_I(Slice(data, meta_start, meta_start + META_LEN_SIZE)))

examine_candidate(data, marker_index) ==
  candidate_at(data, marker_index + Len(MARKER))

Iteration(kind, search_end, marker_index, cand) ==
  [kind |-> kind, search_end |-> search_end, marker_index |-> marker_index,
   metadata |-> cand.metadata, payload_bytes |-> cand.payload_bytes]

\* The pass that leaves the bound where it was after a failed candidate.
iteration_same_bound(search_end, marker_index, cand) ==
  IF ~cand.valid THEN Iteration("continue", search_end, marker_index, cand)
  ELSE Iteration("return", search_end, marker_index, cand)

iteration_result(search_end, marker_index, cand) ==
  IF ~cand.valid THEN Iteration("continue", marker_index, marker_index, cand)
  ELSE Iteration("return", search_end, marker_index, cand)

iteration_at(data, search_end, marker_index) ==
  IF marker_index = 0 - 1
  THEN Iteration("raise", search_end, marker_index, SkipCandidate)
  ELSE iteration_result(search_end, marker_index,
                        examine_candidate(data, marker_index))

\* One pass of the while loop with the bound search_end (lines 149-169):
\* raise, continue with a lower bound, or return.
locate_iteration(data, search_end) ==
  iteration_at(data, search_end, rfind(data, MARKER, 0, search_end))

\* The loop run to its end from the bound search_end.
RECURSIVE locate_from(_, _)
locate_next(data, it) ==
  IF it.kind = "continue" THEN locate_from(data, it.search_end) ELSE it

locate_from(data, search_end) ==
  locate_next(data, locate_iteration(data, search_end))

\* _locate_embedded_chunks(data): kind "return" with the metadata, the
\* payload bytes and the marker position used, or kind "raise"
\* (NoHiddenDataError).
locate_embedded_chunks(data) == locate_from(data, Len(data))

\* ------------------------------------------------------------------------
\* Names and paths
\* ------------------------------------------------------------------------

\* str.strip(): the ASCII white space (tab .. carriage return, the four
\* separators 28..31, the space) removed from both ends.
IsSpace(c) == (c >= 9 /\ c <= 13) \/ (c >= 28 /\ c <= 32)

RECURSIVE lstrip(_)
lstrip(s) == IF s # <<>> /\ IsSpace(Head(s)) THEN lstrip(Tail(s)) ELSE s

RECURSIVE rstrip(_)
rstrip(s) ==
  IF s # <<>> /\ IsSpace(s[Len(s)]) THEN rstrip(SubSeq(s, 1, Len(s) - 1)) ELSE s

strip(s) == rstrip(lstrip(s))

\* os.sep, "/" (os.altsep is None).
SEP == 47

\* os.path.basename(p): what follows the last "/".
basename(p) == SubSeq(p, MaxOr({i \in 1..Len(p) : p[i] = SEP}, 0) + 1, Len(p))

DOT    == <<46>>
DOTDOT == <<46, 46>>

\* A path is a directory and a file name in it.  The directories are "D"
\* (the user's files), "E" (OUTPUT_DIR, Evil_Files), "X" (a directory to
\* extract to) and "L", a symbolic link to "E"; "N" names a regular file
\* where a directory is expected.
PathOf(d, n) == [d |-> d, n |-> n]

resolve_dir(d) == IF d = "L" THEN "E" ELSE d

\* Path.resolve()
resolve(p) == PathOf(resolve_dir(p.d), p.n)

VARIABLES
  fs,      \* the regular files: resolved path -> bytes
  dirs,    \* the directories that exist
  pc,      \* where the running call stands; "idle" between calls
  budget,  \* the calls a run may still make
  emb,     \* embed_file: arguments, locals and outcome of the last call,
           \* and pre, the files as they were when it was called
  ext,     \* extract_file: the same for its last call
  prev,    \* extract_file: the same for the call before the last one
  tamper,  \* what was done to the combined file since embed_file wrote it
  loc      \* _locate_embedded_chunks run on its own: data, bound, outcome

vars == <<fs, dirs, pc, budget, emb, ext, prev, tamper, loc>>

\* Path.is_file(), Path.exists() and Path.is_dir() of a directory path.
is_file(p)    == resolve(p) \in DOMAIN fs
dir_exists(d) == resolve_dir(d) \in dirs \/ d = "N"
is_dir(d)     == resolve_dir(d) \in dirs

\* The files after path p (resolved) holds bytes b.
fs_put(f, p, b) ==
  [q \in DOMAIN f \cup {resolve(p)} |-> IF q = resolve(p) THEN b ELSE f[q]]

\* ------------------------------------------------------------------------
\* The files a run starts with
\* ------------------------------------------------------------------------

N_a == <<97>>
N_b == <<98>>
N_c == <<99>>
N_n == <<110>>
N_o == <<111>>

\* A record with the single-file legacy metadata, as written by hand.
LegacyMeta(name, size) ==
  utf8_encode(json_dumps(JObj(<<Pair(K_filename, JStr(name)),
                                Pair(K_size, JInt(size))>>)))

Record(meta_bytes) == MARKER \o pack_I(Len(meta_bytes)) \o meta_bytes

\* What the carrier D/c may hold: plain bytes; MARKER with nothing behind
\* it; MARKER and a length whose metadata is not JSON; a MARKER record
\* whose metadata is the JSON "{}".
CarrierContents ==
  { <<1, 2>>,
    <<1>> \o MARKER,
    MARKER \o <<0, 0, 0, 1, 123>> \o <<2>>,
    Record(<<123, 125>>) \o <<9>> }

\* What the payload D/a may hold: one byte; nothing; MARKER alone; a
\* complete legacy record with its one-byte payload (a combined file's tail).
PayloadContents ==
  { <<7>>,
    <<>>,
    MARKER,
    Record(LegacyMeta(N_n, 1)) \o <<4>> }

\* A combined file already in Evil_Files: carrier 5, legacy record for the
\* one-byte file "b".
OldCombined == <<5>> \o Record(LegacyMeta(N_b, 1)) \o <<6>>

UserFiles(cc, pa) ==
  PathOf("D", N_c) :> cc @@ PathOf("D", N_a) :> pa @@ PathOf("D", N_b) :> <<8, 9>>

EvilFiles == PathOf("E", N_a) :> <<3>> @@ PathOf("E", N_o) :> OldCombined

\* ------------------------------------------------------------------------
\* Outcomes
\* ------------------------------------------------------------------------

\* The class of the exception raised at a source line.  The program raises
\* built-in exceptions; the error kinds of the outcomes below name each
\* raise site after what it detects.
exception_class(l) ==
  IF l \in {189, 192, 239} THEN "FileNotFoundError"
  ELSE IF l = 244 THEN "NotADirectoryError"
  ELSE IF l \in {249, 261} THEN "AttributeError"
  ELSE IF l = 280 THEN "FileExistsError"
  ELSE IF l = 281 THEN "IsADirectoryError"
  ELSE IF l \in 224..229 THEN "OSError"
  ELSE "ValueError"

\* A call's outcome: "none" (no call yet, or running), "ok", or "error"
\* with the error kind, the exception's class and the source line that
\* raises it.
NoOutcome       == [status |-> "none", err |-> "", exc |-> "", line |-> 0]
Returned        == [status |-> "ok", err |-> "", exc |-> "", line |-> 0]
Raised(kind, l) ==
  [status |-> "error", err |-> kind, exc |-> exception_class(l), line |-> l]

\* ------------------------------------------------------------------------
\* embed_file
\* ------------------------------------------------------------------------

\* safe_name (lines 178, 181).
safe_name_of(output_name) == basename(strip(output_name))

\* output = OUTPUT_DIR / safe_name (line 186).
output_of(output_name) == PathOf(OUTPUT_DIR, safe_name_of(output_name))

\* The checks of the output name (lines 178-185); 0 when it passes, else
\* the line that raises.
check_output_name(output_name) ==
  LET raw_name  == strip(output_name)
      safe_name == basename(raw_name)
  IN  IF raw_name = <<>> THEN 180
      ELSE IF safe_name = <<>> \/ safe_name \in {DOT, DOTDOT} THEN 183
      ELSE IF \E i \in 1..Len(safe_name) : safe_name[i] = SEP THEN 185
      ELSE 0

\* The comparison with the carrier alone.
check_distinct_carrier(carrier, payload_files, output) ==
  IF resolve(carrier) = resolve(output) THEN 195 ELSE 0

\* The output must not be the carrier nor a payload (lines 194-198); 0 when
\* it is neither, else the line that raises.
check_distinct(carrier, payload_files, output) ==
  IF resolve(carrier) = resolve(output) THEN 195
  ELSE IF \E i \in 1..Len(payload_files) :
            resolve(payload_files[i]) = resolve(output) THEN 198
  ELSE 0

\* Lines 174-198: the outcome of the checks made before anything is
\* written; Returned stands for "all passed".
embed_checks(carrier, payload_files, output_name) ==
  LET name_line == check_output_name(output_name)
      same_line == check_distinct(carrier, payload_files,
                                  output_of(output_name))
  IN  IF payload_files = <<>> THEN Raised("ValidationError", 176)
      ELSE IF name_line # 0 THEN Raised("ValidationError", name_line)
      ELSE IF ~is_file(carrier) THEN Raised("ValidationError", 189)
      ELSE IF \E i \in 1..Len(payload_files) : ~is_file(payload_files[i])
      THEN Raised("ValidationError", 192)
      ELSE IF same_line # 0 THEN Raised("ValidationError", same_line)
      ELSE Returned

\* Lines 204-219: the metadata of the payloads read, as JSON bytes.
build_metadata(names, chunks) ==
  LET files_meta ==
        [i \in 1..Len(chunks) |->
           JObj(<<Pair(K_filename, JStr(names[i])),
                  Pair(K_size, JInt(Len(chunks[i])))>>)]
      metadata == JObj(<<Pair(K_files, JList(files_meta)),
                         Pair(K_count, JInt(Len(files_meta)))>>)
  IN  utf8_encode(json_dumps(metadata))

EmbNone ==
  [called |-> FALSE, carrier |-> PathOf("D", <<>>), payload_files |-> <<>>,
   output_name |-> <<>>, output |-> PathOf(OUTPUT_DIR, <<>>),
   payload_chunks |-> <<>>, metadata_bytes |-> <<>>, step |-> 0,
   pre |-> <<>>, outcome |-> NoOutcome]

\* The call up to and including the opening of the output file (lines
\* 174-223): the checks, the creation of Evil_Files, the reading of the
\* payloads, the metadata; output.open("wb") creates or empties the output.
\* The length check of line 220 cannot fire: no metadata of the model comes
\* near 2^32 bytes.
embed_begin(carrier, payload_files, output_name) ==
  /\ pc = "idle"
  /\ "embed" \in budget
  /\ budget' = budget \ {"embed"}
  /\ LET checks   == embed_checks(carrier, payload_files, output_name)
         output   == output_of(output_name)
         chunks   == [i \in 1..Len(payload_files) |->
                        fs[resolve(payload_files[i])]]
         names    == [i \in 1..Len(payload_files) |-> payload_files[i].n]
         args     == [EmbNone EXCEPT !.called = TRUE, !.carrier = carrier,
                        !.payload_files = payload_files,
                        !.output_name = output_name, !.pre = fs]
     IN  IF checks.status = "error"
         THEN /\ emb' = [args EXCEPT !.outcome = checks]
              /\ pc' = "idle"
              /\ UNCHANGED <<fs, dirs>>
         ELSE /\ emb' = [args EXCEPT !.output = output,
                           !.payload_chunks = chunks,
                           !.metadata_bytes = build_metadata(names, chunks),
                           !.step = 1]
              /\ dirs' = dirs \cup {OUTPUT_DIR}
              /\ fs' = fs_put(fs, output, <<>>)
              /\ pc' = "embed_write"
  /\ UNCHANGED <<ext, tamper, loc, prev>>

\* The writes with the chunks taken last to first.
write_piece_reversed(step) ==
  IF step = 1 THEN fs[resolve(emb.carrier)]
  ELSE IF step = 2 THEN MARKER
  ELSE IF step = 3 THEN pack_I(Len(emb.metadata_bytes))
  ELSE IF step = 4 THEN emb.metadata_bytes
  ELSE emb.payload_chunks[Len(emb.payload_chunks) + 5 - step]

\* The bytes written by the step-th out_file.write (lines 224-229): the
\* carrier as read now, MARKER, the length, the metadata, then each chunk.
write_piece(step) ==
  IF step = 1 THEN fs[resolve(emb.carrier)]
  ELSE IF step = 2 THEN MARKER
  ELSE IF step = 3 THEN pack_I(Len(emb.metadata_bytes))
  ELSE IF step = 4 THEN emb.metadata_bytes
  ELSE emb.payload_chunks[step - 4]

\* The source line of the step-th write.
write_line(step) == IF step <= 4 THEN 223 + step ELSE 229

last_step == 4 + Len(emb.payload_chunks)

\* One out_file.write; the last one is followed by the return (line 230).
embed_write ==
  /\ pc = "embed_write"
  /\ fs' = fs_put(fs, emb.output, fs[resolve(emb.output)] \o write_piece(emb.step))
  /\ IF emb.step = last_step
     THEN /\ pc' = "idle"
          /\ emb' = [emb EXCEPT !.outcome = Returned]
     ELSE /\ pc' = "embed_write"
          /\ emb' = [emb EXCEPT !.step = emb.step + 1]
  /\ UNCHANGED <<dirs, budget, ext, tamper, loc, prev>>

\* A write that fails (the disk is full, the device is gone): OSError
\* leaves the with block, which closes the file with what was written.
embed_io_error ==
  /\ pc = "embed_write"
  /\ pc' = "idle"
  /\ emb' = [emb EXCEPT !.outcome = Raised("OSError", write_line(emb.step))]
  /\ UNCHANGED <<fs, dirs, budget, ext, tamper, loc, prev>>

\* ------------------------------------------------------------------------
\* extract_file
\* ------------------------------------------------------------------------

\* Lines 249-256: the file list of the metadata, current or legacy shape.
\* metadata.get on a value that is no dict raises AttributeError.
normalize_metadata(metadata) ==
  LET files_meta  == dict_get(metadata, K_files)
      legacy_name == dict_get(metadata, K_filename)
      legacy_size == dict_get(metadata, K_size)
  IN  IF ~is_dict(metadata)
      THEN [outcome |-> Raised("AttributeError", 249), files_meta |-> <<>>]
      ELSE IF is_list(files_meta) /\ files_meta.v # <<>>
      THEN [outcome |-> Returned, files_meta |-> files_meta.v]
      ELSE IF is_str(legacy_name) /\ is_int(legacy_size)
      THEN [outcome |-> Returned,
            files_meta |-> <<JObj(<<Pair(K_filename, legacy_name),
                                    Pair(K_size, legacy_size)>>)>>]
      ELSE [outcome |-> Raised("MetadataError", 256), files_meta |-> <<>>]

\* The checks of one entry without the comparison of line 268.
check_entry_unbounded(file_meta, payload_bytes, offset) ==
  IF ~is_dict(file_meta) THEN 261
  ELSE IF ~is_str(dict_get(file_meta, K_filename))
          \/ ~is_int(dict_get(file_meta, K_size)) THEN 264
  ELSE IF int_of(dict_get(file_meta, K_size)) < 0 THEN 266
  ELSE 0

\* Lines 261-269: the checks of one entry against the payload from offset
\* on; 0 when the entry passes, else the line that raises.
check_entry(file_meta, payload_bytes, offset) ==
  LET filename == dict_get(file_meta, K_filename)
      size     == dict_get(file_meta, K_size)
  IN  IF ~is_dict(file_meta) THEN 261
      ELSE IF ~is_str(filename) \/ ~is_int(size) THEN 264
      ELSE IF int_of(size) < 0 THEN 266
      ELSE IF Len(Slice(payload_bytes, offset, offset + int_of(size))) # int_of(size)
      THEN 269
      ELSE 0

entry_error(line) ==
  IF line = 261 THEN Raised("AttributeError", 261)
  ELSE Raised("CorruptEntryError", line)

\* "fichier_cache_"
PLACEHOLDER == <<102, 105, 99, 104, 105, 101, 114, 95, 99, 97, 99, 104, 101, 95>>

\* The stored filename taken as it is, without os.path.basename.
base_name_raw(filename, index) ==
  IF filename = <<>> THEN PLACEHOLDER \o dumps_nat(index) ELSE filename

\* Line 272: the name the entry is written under.
base_name_of(filename, index) ==
  IF basename(filename) = <<>> THEN PLACEHOLDER \o dumps_nat(index)
  ELSE basename(filename)

\* output_file.exists(): "." and ".." name directories that exist.
path_exists(p) == p.n \in {DOT, DOTDOT} \/ is_file(p)

ExtNone ==
  [called |-> FALSE, stego_file |-> PathOf("E", <<>>), target_dir |-> "X",
   pre |-> <<>>, pre_dirs |-> {}, data |-> <<>>, marker_index |-> 0 - 1,
   files_meta |-> <<>>, payload_bytes |-> <<>>, offset |-> 0, index |-> 1,
   chunk |-> <<>>, output_file |-> PathOf("X", <<>>),
   extracted_paths |-> <<>>, asked |-> <<>>, answers |-> <<>>,
   source |-> "other", outcome |-> NoOutcome]

\* Where the file to extract from comes from: "embedded" when it is the file
\* the last embed_file call wrote, untouched since; "truncated" or
\* "appended" when it was changed since; "other" for any other file.
source_of(stego_file) ==
  IF emb.outcome.status = "ok" /\ resolve(stego_file) = resolve(emb.output)
  THEN (IF tamper = "none" THEN "embedded" ELSE tamper)
  ELSE "other"

\* Lines 249-259: the locals once the metadata found is normalised.
ext_normalized(read, found, norm) ==
  IF norm.outcome.status = "error"
  THEN [read EXCEPT !.marker_index = found.marker_index,
                    !.payload_bytes = found.payload_bytes,
                    !.outcome = norm.outcome]
  ELSE [read EXCEPT !.marker_index = found.marker_index,
                    !.payload_bytes = found.payload_bytes,
                    !.files_meta = norm.files_meta]

\* Line 247: the locals once the locator has run.
ext_located(read, found) ==
  IF found.kind = "raise"
  THEN [read EXCEPT !.outcome = Raised("NoHiddenDataError", 151)]
  ELSE ext_normalized(read, found, normalize_metadata(found.metadata))

\* Lines 246-259: the locals after the file is read, up to the loop.
ext_read(args, data) ==
  ext_located([args EXCEPT !.data = data], locate_embedded_chunks(data))

\* The locals of a call that start from those the call before left.
ext_args_stale(stego_file, target_dir) ==
  [ext EXCEPT !.called = TRUE, !.stego_file = stego_file,
              !.target_dir = target_dir, !.pre = fs, !.pre_dirs = dirs,
              !.source = source_of(stego_file), !.outcome = NoOutcome]

ext_args(stego_file, target_dir) ==
  [ExtNone EXCEPT !.called = TRUE, !.stego_file = stego_file,
                  !.target_dir = target_dir, !.pre = fs, !.pre_dirs = dirs,
                  !.source = source_of(stego_file)]

\* The call up to the loop with the directory made before the combined
\* file is looked for.
extract_begin_mkdir_first(stego_file, target_dir) ==
  /\ pc = "idle"
  /\ budget \cap {"extract", "extract again"} # {}
  /\ budget' = budget \ {IF "extract" \in budget THEN "extract"
                                                  ELSE "extract again"}
  /\ prev' = ext
  /\ dirs' = IF dir_exists(target_dir) /\ ~is_dir(target_dir) THEN dirs
             ELSE dirs \cup {resolve_dir(target_dir)}
  /\ ext' = IF ~is_file(stego_file)
            THEN [ext_args(stego_file, target_dir) EXCEPT
                    !.outcome = Raised("NotFoundError", 239)]
            ELSE IF dir_exists(target_dir) /\ ~is_dir(target_dir)
            THEN [ext_args(stego_file, target_dir) EXCEPT
                    !.outcome = Raised("NotADirectoryError", 244)]
            ELSE ext_read(ext_args(stego_file, target_dir),
                          fs[resolve(stego_file)])
  /\ pc' = IF ext'.outcome.status = "none" THEN "extract_loop" ELSE "idle"
  /\ UNCHANGED <<fs, emb, tamper, loc>>

\* The call up to the loop (lines 235-259).
extract_begin(stego_file, target_dir) ==
  /\ pc = "idle"
  /\ budget \cap {"extract", "extract again"} # {}
  /\ budget' = budget \ {IF "extract" \in budget THEN "extract"
                                                  ELSE "extract again"}
  /\ prev' = ext
  /\ IF ~is_file(stego_file)
     THEN /\ ext' = [ext_args(stego_file, target_dir) EXCEPT
                       !.outcome = Raised("NotFoundError", 239)]
          /\ dirs' = dirs
     ELSE IF dir_exists(target_dir) /\ ~is_dir(target_dir)
     THEN /\ ext' = [ext_args(stego_file, target_dir) EXCEPT
                       !.outcome = Raised("NotADirectoryError", 244)]
          /\ dirs' = dirs
     ELSE /\ dirs' = dirs \cup {resolve_dir(target_dir)}
          /\ ext' = ext_read(ext_args(stego_file, target_dir),
                             fs[resolve(stego_file)])
  /\ pc' = IF ext'.outcome.status = "none" THEN "extract_loop" ELSE "idle"
  /\ UNCHANGED <<fs, emb, tamper, loc>>

\* The write of the whole payload in place of the entry's slice.
write_entry_whole(e) ==
  /\ fs' = fs_put(fs, e.output_file, e.payload_bytes)
  /\ ext' = [e EXCEPT !.extracted_paths = Append(e.extracted_paths, e.output_file),
                      !.index = e.index + 1]
  /\ pc' = "extract_loop"

\* Lines 281-282 for the entry at hand: the slice is written and its path
\* recorded; the loop goes on with the next entry.
write_entry(e) ==
  /\ fs' = fs_put(fs, e.output_file, e.chunk)
  /\ ext' = [e EXCEPT !.extracted_paths = Append(e.extracted_paths, e.output_file),
                      !.index = e.index + 1]
  /\ pc' = "extract_loop"

\* One pass of the loop with the question of lines 274-280 put before the
\* checks of the size (lines 265-269).
extract_entry_ask_first ==
  /\ pc = "extract_loop"
  /\ ext.index <= Len(ext.files_meta)
  /\ LET file_meta == ext.files_meta[ext.index]
         line      == check_entry(file_meta, ext.payload_bytes, ext.offset)
         size      == int_of(dict_get(file_meta, K_size))
         filename  == dict_get(file_meta, K_filename).v
         here      == [ext EXCEPT
                         !.chunk = Slice(ext.payload_bytes, ext.offset,
                                         ext.offset + size),
                         !.offset = ext.offset + size,
                         !.output_file = PathOf(ext.target_dir,
                                           base_name_of(filename, ext.index))]
     IN  IF line \in {261, 264}
         THEN /\ ext' = [ext EXCEPT !.outcome = entry_error(line)]
              /\ pc' = "idle"
              /\ fs' = fs
         ELSE IF path_exists(here.output_file)
         THEN /\ ext' = [here EXCEPT !.asked = Append(ext.asked, here.output_file)]
              /\ pc' = "extract_ask"
              /\ fs' = fs
         ELSE IF line # 0
         THEN /\ ext' = [ext EXCEPT !.outcome = entry_error(line)]
              /\ pc' = "idle"
              /\ fs' = fs
         ELSE write_entry(here)
  /\ UNCHANGED <<dirs, budget, emb, tamper, loc, prev>>

\* One pass of the loop up to the question or the write (lines 260-282).
extract_entry ==
  /\ pc = "extract_loop"
  /\ ext.index <= Len(ext.files_meta)
  /\ LET file_meta == ext.files_meta[ext.index]
         line      == check_entry(file_meta, ext.payload_bytes, ext.offset)
         size      == int_of(dict_get(file_meta, K_size))
         filename  == dict_get(file_meta, K_filename).v
         here      == [ext EXCEPT
                         !.chunk = Slice(ext.payload_bytes, ext.offset,
                                         ext.offset + size),
                         !.offset = ext.offset + size,
                         !.output_file = PathOf(ext.target_dir,
                                           base_name_of(filename, ext.index))]
     IN  IF line # 0
         THEN /\ ext' = [ext EXCEPT !.outcome = entry_error(line)]
              /\ pc' = "idle"
              /\ fs' = fs
         ELSE IF path_exists(here.output_file)
         THEN /\ ext' = [here EXCEPT !.asked = Append(ext.asked, here.output_file)]
              /\ pc' = "extract_ask"
              /\ fs' = fs
         ELSE write_entry(here)
  /\ UNCHANGED <<dirs, budget, emb, tamper, loc, prev>>

\* The answer taken without lines 279-280: the entry is written whatever
\* the answer.
extract_answer_ignored(overwrite) ==
  /\ pc = "extract_ask"
  /\ write_entry([ext EXCEPT !.answers = Append(ext.answers, overwrite)])
  /\ UNCHANGED <<dirs, budget, emb, tamper, loc, prev>>

\* The answer to messagebox.askyesno (lines 275-282).  Writing to a path
\* that names a directory raises IsADirectoryError.
extract_answer(overwrite) ==
  /\ pc = "extract_ask"
  /\ LET e == [ext EXCEPT !.answers = Append(ext.answers, overwrite)]
     IN  IF ~overwrite
         THEN /\ ext' = [e EXCEPT !.outcome = Raised("FileExistsError", 280)]
              /\ pc' = "idle"
              /\ fs' = fs
         ELSE IF e.output_file.n \in {DOT, DOTDOT}
         THEN /\ ext' = [e EXCEPT !.outcome = Raised("IsADirectoryError", 281)]
              /\ pc' = "idle"
              /\ fs' = fs
         ELSE write_entry(e)
  /\ UNCHANGED <<dirs, budget, emb, tamper, loc, prev>>

\* After the loop (lines 284-287).
extract_finish ==
  /\ pc = "extract_loop"
  /\ ext.index > Len(ext.files_meta)
  /\ ext' = [ext EXCEPT !.outcome =
               IF ext.offset # Len(ext.payload_bytes)
               THEN Raised("TrailingDataError", 285) ELSE Returned]
  /\ pc' = "idle"
  /\ UNCHANGED <<fs, dirs, budget, emb, tamper, loc, prev>>

\* ------------------------------------------------------------------------
\* The combined file changed behind the program's back
\* ------------------------------------------------------------------------

\* The last byte of the file embed_file wrote is cut off.
env_truncate ==
  /\ pc = "idle"
  /\ "tamper" \in budget
  /\ emb.outcome.status = "ok"
  /\ budget' = budget \ {"tamper"}
  /\ LET old == fs[resolve(emb.output)]
     IN  fs' = fs_put(fs, emb.output, SubSeq(old, 1, Len(old) - 1))
  /\ tamper' = "truncated"
  /\ UNCHANGED <<dirs, pc, emb, ext, loc, prev>>

\* One byte is added to the file embed_file wrote.
env_append ==
  /\ pc = "idle"
  /\ "tamper" \in budget
  /\ emb.outcome.status = "ok"
  /\ budget' = budget \ {"tamper"}
  /\ fs' = fs_put(fs, emb.output, Append(fs[resolve(emb.output)], 0))
  /\ tamper' = "appended"
  /\ UNCHANGED <<dirs, pc, emb, ext, loc, prev>>

\* ------------------------------------------------------------------------
\* _locate_embedded_chunks, one pass of its loop at a time
\* ------------------------------------------------------------------------

LocIdle ==
  [status |-> "idle", data |-> <<>>, search_end |-> 0, marker_index |-> 0 - 1,
   metadata |-> JNull, payload_bytes |-> <<>>, examined |-> <<>>]

\* Line 147.
LocStart(data) ==
  [LocIdle EXCEPT !.status = "run", !.data = data, !.search_end = Len(data)]

\* The locals after the pass it.
LocAfter(l, it) ==
  [l EXCEPT !.status = IF it.kind = "continue" THEN "run" ELSE it.kind,
            !.search_end = it.search_end,
            !.marker_index = it.marker_index,
            !.metadata = it.metadata,
            !.payload_bytes = it.payload_bytes,
            !.examined = IF it.kind = "raise" THEN l.examined
                         ELSE Append(l.examined, it.marker_index)]

locate_step ==
  /\ loc.status = "run"
  /\ loc' = LocAfter(loc, locate_iteration(loc.data, loc.search_end))
  /\ UNCHANGED <<fs, dirs, pc, budget, emb, ext, tamper, prev>>

\* ------------------------------------------------------------------------
\* Bounds and the inputs drawn
\* ------------------------------------------------------------------------

\* The longest payload list passed to embed_file.
MaxPayloads == 2

\* The number of pieces a byte string given to the locator is made of.
MaxPieces == 4

CarrierPaths == {PathOf("D", N_c), PathOf("L", N_o)}

PayloadPaths == {PathOf("D", N_a), PathOf("D", N_b), PathOf("E", N_a)}

PayloadLists == UNION {[1..n -> PayloadPaths] : n \in 0..MaxPayloads}

\* "o", "a", " s/o" (a path, with a leading space), "", "." and "s/".
OutputNames ==
  { N_o, N_a, <<32, 115, 47, 111>>, <<>>, DOT, <<115, 47>> }

StegoPaths == {PathOf("E", N_o), PathOf("E", N_a)}

TargetDirs == {"X", "E", "N"}

\* The pieces of the locator's inputs: a plain byte, the start of MARKER,
\* MARKER, and lengths with what follows them: valid JSON ("1"), a byte
\* that is not UTF-8, text that is not JSON ("{"), the length 0, and a
\* length of 2 followed by a single byte.
Pieces ==
  { <<0>>,
    <<83, 84, 69, 71>>,
    MARKER,
    <<0, 0, 0, 1, 49>>,
    <<0, 0, 0, 1, 255>>,
    <<0, 0, 0, 1, 123>>,
    <<0, 0, 0, 0>>,
    <<0, 0, 0, 2, 49>> }

PieceLists == UNION {[1..n -> Pieces] : n \in 0..MaxPieces}

\* The longest "files" list of a combined file written by hand.
MaxEntries == 2

\* An entry of a "files" list.
Entry(filename, size) == JObj(<<Pair(K_filename, filename), Pair(K_size, size)>>)

\* The entries a combined file written by hand may list: "a" of one byte;
\* "b" of no byte; the paths "s/n", ".." and "s/" (no base name); the sizes
\* -1, 3 (more than the payload holds), true and "1"; the filename 1; an
\* object without the two fields; the number 1 in place of an object.
HandEntries ==
  { Entry(JStr(N_a), JInt(1)),
    Entry(JStr(N_b), JInt(0)),
    Entry(JStr(<<115, 47, 110>>), JInt(1)),
    Entry(JStr(DOTDOT), JInt(1)),
    Entry(JStr(<<115, 47>>), JInt(1)),
    Entry(JStr(N_a), JInt(0 - 1)),
    Entry(JStr(N_a), JInt(3)),
    Entry(JStr(N_a), JBool(TRUE)),
    Entry(JStr(N_a), JStr(<<49>>)),
    Entry(JInt(1), JInt(1)),
    JObj(<<>>),
    JInt(1) }

HandEntryLists == UNION {[1..n -> HandEntries] : n \in 1..MaxEntries}

\* The current shape: {"files": [...], "count": n}.
CurrentMeta(entries) ==
  JObj(<<Pair(K_files, JList(entries)), Pair(K_count, JInt(Len(entries)))>>)

\* The legacy fields of the two-byte file "b", with "files" set to a value.
LegacyWithFiles(files) ==
  JObj(<<Pair(K_files, files), Pair(K_filename, JStr(N_b)), Pair(K_size, JInt(2))>>)

\* The metadata of other shapes: the legacy fields alone; with "files"
\* empty, 1, null, or a list of one entry; an object of neither shape
\* ({} and a legacy filename that is a number); "files" that is no list
\* without legacy fields; an array, a number and a string.
OtherMetas ==
  { JObj(<<Pair(K_filename, JStr(N_b)), Pair(K_size, JInt(2))>>),
    LegacyWithFiles(JList(<<>>)),
    LegacyWithFiles(JInt(1)),
    LegacyWithFiles(JNull),
    LegacyWithFiles(JList(<<Entry(JStr(N_a), JInt(2))>>)),
    JObj(<<>>),
    JObj(<<Pair(K_filename, JInt(1)), Pair(K_size, JInt(2))>>),
    JObj(<<Pair(K_files, JInt(1))>>),
    JList(<<Entry(JStr(N_a), JInt(2))>>),
    JInt(1),
    JStr(N_a) }

HandMetas == {CurrentMeta(entries) : entries \in HandEntryLists} \cup OtherMetas

\* The combined file written by hand: carrier 5, the record of the
\* metadata, and the two payload bytes 7 and 8.
HandPayload == <<7, 8>>

HandCombined(metadata) ==
  <<5>> \o Record(utf8_encode(json_dumps(metadata))) \o HandPayload

\* extract_file: the combined file stego_path names.
HandStegoPaths == {PathOf(OUTPUT_DIR, N_o)}

\* The directories extract_file is given in the runs on these files.
HandTargetDirs == {"X", "Y"}

\* ------------------------------------------------------------------------
\* Specifications
\* ------------------------------------------------------------------------

\* Evil_Files exists with its two files, or does not exist yet.
Init ==
  /\ \E cc \in CarrierContents, pa \in PayloadContents :
       \/ /\ dirs = {"D", OUTPUT_DIR}
          /\ fs = UserFiles(cc, pa) @@ EvilFiles
       \/ /\ dirs = {"D"}
          /\ cc = <<1, 2>>
          /\ pa = <<7>>
          /\ fs = UserFiles(cc, pa)
  /\ pc = "idle"
  /\ budget = {"embed", "tamper", "extract"}
  /\ emb = EmbNone
  /\ ext = ExtNone
  /\ prev = ExtNone
  /\ tamper = "none"
  /\ loc = LocIdle

Next ==
  \/ \E carrier \in CarrierPaths, payload_files \in PayloadLists,
        output_name \in OutputNames :
       embed_begin(carrier, payload_files, output_name)
  \/ embed_write
  \/ embed_io_error
  \/ \E stego_file \in StegoPaths, target_dir \in TargetDirs :
       extract_begin(stego_file, target_dir)
  \/ extract_entry
  \/ \E overwrite \in BOOLEAN : extract_answer(overwrite)
  \/ extract_finish
  \/ env_truncate
  \/ env_append

Spec == Init /\ [][Next]_vars

\* The locator alone, on every byte string made of at most MaxPieces pieces.
InitLocate ==
  /\ fs = <<>>
  /\ dirs = {}
  /\ pc = "idle"
  /\ budget = {}
  /\ emb = EmbNone
  /\ ext = ExtNone
  /\ prev = ExtNone
  /\ tamper = "none"
  /\ \E ps \in PieceLists : loc = LocStart(Concat(ps))

NextLocate == locate_step

SpecLocate == InitLocate /\ [][NextLocate]_vars

\* extract_file alone, called at most twice on a combined file written by
\* hand, Evil_Files/o; the directory "X" is absent or holds the file "a",
\* the directory "Y" is absent.
InitExtract ==
  /\ \E metadata \in HandMetas :
       \/ /\ dirs = {OUTPUT_DIR}
          /\ fs = PathOf(OUTPUT_DIR, N_o) :> HandCombined(metadata)
       \/ /\ dirs = {OUTPUT_DIR, "X"}
          /\ fs = PathOf(OUTPUT_DIR, N_o) :> HandCombined(metadata)
                    @@ PathOf("X", N_a) :> <<3>>
  /\ pc = "idle"
  /\ budget = {"extract", "extract again"}
  /\ emb = EmbNone
  /\ ext = ExtNone
  /\ prev = ExtNone
  /\ tamper = "none"
  /\ loc = LocIdle

NextExtract ==
  \/ \E stego_file \in HandStegoPaths, target_dir \in HandTargetDirs :
       extract_begin(stego_file, target_dir)
  \/ extract_entry
  \/ \E overwrite \in BOOLEAN : extract_answer(overwrite)
  \/ extract_finish

SpecExtract == InitExtract /\ [][NextExtract]_vars

\* The locator's loop neither blocks nor waits: while it has not returned
\* or raised, its next pass is taken.  This is weak fairness of the pass,
\* written out with the loop's guard in place of ENABLED <<NextLocate>>_vars:
\* a pass is defined for every state in which the loop runs, and it changes
\* loc (it ends the loop or lowers the bound).
LoopRuns == loc.status = "run"

PassTaken == []<>(~LoopRuns) \/ []<><<NextLocate>>_vars

SpecLocateFair == SpecLocate /\ PassTaken

\* ------------------------------------------------------------------------
\* Properties
\* ------------------------------------------------------------------------

\* extract_file has finished on the file embed_file wrote, untouched since,
\* into the directory "X", which held nothing.
RoundTripDone ==
  /\ pc = "idle"
  /\ ext.outcome.status # "none"
  /\ ext.source = "embedded"
  /\ ext.target_dir = "X"

\* extract_file returned exactly the payloads given to embed_file: their
\* names in order, their bytes as embed_file read them.
PayloadsRecovered ==
  /\ ext.outcome.status = "ok"
  /\ ext.extracted_paths =
       [i \in 1..Len(emb.payload_files) |-> PathOf("X", emb.payload_files[i].n)]
  /\ \A i \in 1..Len(emb.payload_files) :
       fs[PathOf("X", emb.payload_files[i].n)] = emb.payload_chunks[i]

\* C1: round trip.  Whenever extract_file has run on the file embed_file
\* produced, into an empty directory, it succeeded and returned the payloads
\* given to embed_file, by name, in order, with identical bytes.
C1_RoundTrip == RoundTripDone => PayloadsRecovered

\* The occurrence of MARKER at the 0-based index m of data is structurally
\* valid: four length bytes follow it, the length is positive, the metadata
\* lies within data, decodes as UTF-8 and parses as JSON.
MetaStart(m) == m + Len(MARKER) + META_LEN_SIZE

MetaLen(data, m) == unpack_I(Slice(data, m + Len(MARKER), MetaStart(m)))

MetaText(data, m) ==
  utf8_decode(Slice(data, MetaStart(m), MetaStart(m) + MetaLen(data, m)))

StructurallyValid(data, m) ==
  /\ OccursAt(data, MARKER, m)
  /\ MetaStart(m) <= Len(data)
  /\ MetaLen(data, m) > 0
  /\ MetaStart(m) + MetaLen(data, m) <= Len(data)
  /\ MetaText(data, m).ok
  /\ json_loads(MetaText(data, m).text).ok

ValidOccurrences(data) == {m \in 0..Len(data) : StructurallyValid(data, m)}

SpuriousCarrier(c) ==
  /\ \E m \in 0..Len(c) : OccursAt(c, MARKER, m)
  /\ ValidOccurrences(c) = {}

\* C3: resync.  When the carrier holds MARKER followed by bytes that form
\* no valid record, extract_file on the file embed_file produced recovers
\* the payloads, and the record it uses does not start in the carrier.
C3_Resync ==
  (RoundTripDone /\ SpuriousCarrier(emb.pre[resolve(emb.carrier)])) =>
    /\ PayloadsRecovered
    /\ ext.marker_index >= Len(emb.pre[resolve(emb.carrier)])

\* No payload holds MARKER, and no two payloads have the same name.
PlainPayloads ==
  /\ \A i \in 1..Len(emb.payload_chunks) :
       \A m \in 0..Len(emb.payload_chunks[i]) :
         ~OccursAt(emb.payload_chunks[i], MARKER, m)
  /\ \A i, j \in 1..Len(emb.payload_files) :
       i # j => emb.payload_files[i].n # emb.payload_files[j].n

\* C3, the carrier's side alone: with such a carrier the record used never
\* starts in the carrier, and payloads that hold no MARKER and have
\* different names are recovered.
C3_ResyncPlainPayloads ==
  (RoundTripDone /\ SpuriousCarrier(emb.pre[resolve(emb.carrier)])) =>
    /\ ext.marker_index >= Len(emb.pre[resolve(emb.carrier)])
    /\ PlainPayloads => PayloadsRecovered

\* C4: no step of extract_file changes the bytes at the path of the
\* combined file it was given.
C4_CombinedUntouched ==
  [][(pc \in {"extract_loop", "extract_ask"} =>
        (fs'[resolve(ext.stego_file)] = fs[resolve(ext.stego_file)]))]_vars

\* C5: size mismatch.  When the last byte of the file embed_file produced
\* is removed, extract_file (into an empty directory) fails with
\* CorruptEntryError or TrailingDataError.
C5_TruncationDetected ==
  (/\ pc = "idle"
   /\ ext.outcome.status # "none"
   /\ ext.source = "truncated"
   /\ ext.target_dir = "X") =>
    /\ ext.outcome.status = "error"
    /\ ext.outcome.err \in {"CorruptEntryError", "TrailingDataError"}

HasSeparator(name) == \E i \in 1..Len(name) : name[i] = SEP

\* C6: whenever embed_file was called with an output name that holds a
\* path separator, the call failed with ValidationError (so it is never
\* writing, and never returns a path).
C6_SeparatorRejected ==
  (emb.called /\ HasSeparator(emb.output_name)) =>
    /\ emb.outcome.status = "error"
    /\ emb.outcome.err = "ValidationError"

\* The resolved paths of the carrier and the payloads of the call e.
Sources(e) ==
  {resolve(e.carrier)}
    \cup {resolve(e.payload_files[i]) : i \in 1..Len(e.payload_files)}

CombinedOf(out, e, c, ms, len) ==
  /\ Slice(out, 0, Len(c)) = c
  /\ Slice(out, Len(c), Len(c) + Len(MARKER)) = MARKER
  /\ ms <= Len(out)
  /\ len > 0
  /\ ms + len <= Len(out)
  /\ utf8_decode(Slice(out, ms, ms + len)).ok
  /\ LET meta  == json_loads(utf8_decode(Slice(out, ms, ms + len)).text)
         files == dict_get(meta.val, K_files)
         N     == Len(e.payload_files)
         rest  == Slice(out, ms + len, Len(out))
     IN  /\ meta.ok
         /\ is_dict(meta.val)
         /\ Len(meta.val.v) = 2
         /\ dict_get(meta.val, K_count) = JInt(N)
         /\ is_list(files)
         /\ Len(files.v) = N
         /\ \A i \in 1..N :
              files.v[i] =
                JObj(<<Pair(K_filename, JStr(e.payload_files[i].n)),
                       Pair(K_size,
                            JInt(Len(e.pre[resolve(e.payload_files[i])])))>>)
         /\ rest = Concat([i \in 1..N |-> e.pre[resolve(e.payload_files[i])]])
         /\ SumSeq([i \in 1..N |-> int_of(dict_get(files.v[i], K_size))])
              = Len(rest)

IsCombined(out, e) ==
  CombinedOf(out, e, e.pre[resolve(e.carrier)],
             Len(e.pre[resolve(e.carrier)]) + Len(MARKER) + META_LEN_SIZE,
             IF Len(out) >= Len(e.pre[resolve(e.carrier)]) + Len(MARKER) + META_LEN_SIZE
             THEN unpack_I(Slice(out, Len(e.pre[resolve(e.carrier)]) + Len(MARKER),
                                 Len(e.pre[resolve(e.carrier)]) + Len(MARKER)
                                   + META_LEN_SIZE))
             ELSE 0)

\* C8: when embed_file returns, the file at its output path is the carrier,
\* MARKER, the 4-byte big-endian length of the metadata, the metadata (one
\* filename/size entry per payload in input order, count = N) and the
\* payloads in input order; the declared sizes sum to the length of what
\* follows the metadata.
C8_Format ==
  [][((emb.outcome.status # "ok" /\ emb'.outcome.status = "ok") =>
        IsCombined(fs'[resolve(emb'.output)], emb'))]_vars

\* embed_file returned after writing two payloads with different bytes.
C8_Witness ==
  /\ pc = "idle"
  /\ emb.outcome.status = "ok"
  /\ tamper = "none"
  /\ ~ext.called
  /\ Len(emb.payload_files) = 2
  /\ emb.payload_chunks[1] # emb.payload_chunks[2]
  /\ IsCombined(fs[resolve(emb.output)], emb)

\* The output path holds what it held when embed_file was called.
OutputUntouched ==
  IF resolve(emb.output) \in DOMAIN emb.pre
  THEN /\ resolve(emb.output) \in DOMAIN fs
       /\ fs[resolve(emb.output)] = emb.pre[resolve(emb.output)]
  ELSE resolve(emb.output) \notin DOMAIN fs

\* C9: atomic creation.  While embed_file writes, and after it failed
\* part-way, its output path is untouched or holds the complete combined
\* file.
C9_Atomic ==
  (\/ pc = "embed_write"
   \/ (pc = "idle" /\ emb.outcome.err = "OSError" /\ ~ext.called)) =>
    \/ OutputUntouched
    \/ IsCombined(fs[resolve(emb.output)], emb)

\* The declared sizes of the normalised file list, and their sums.
WellFormedEntry(m) ==
  /\ is_dict(m)
  /\ is_str(dict_get(m, K_filename))
  /\ is_int(dict_get(m, K_size))
  /\ int_of(dict_get(m, K_size)) >= 0

DeclaredSizes ==
  [i \in 1..Len(ext.files_meta) |-> int_of(dict_get(ext.files_meta[i], K_size))]

DeclaredSum(k) == SumSeq(SubSeq(DeclaredSizes, 1, k))

\* The first entry whose slice runs past the end of the payload.
FirstOverrun ==
  CHOOSE k \in 1..Len(ext.files_meta) :
    /\ DeclaredSum(k) > Len(ext.payload_bytes)
    /\ \A j \in 1..(k - 1) : DeclaredSum(j) <= Len(ext.payload_bytes)

\* extract_file has finished after reaching its loop, on a file list whose
\* entries are all well formed.
ExtractDone ==
  /\ pc = "idle"
  /\ ext.files_meta # <<>>
  /\ \A i \in 1..Len(ext.files_meta) : WellFormedEntry(ext.files_meta[i])

WriteRefused == ext.outcome.err \in {"FileExistsError", "IsADirectoryError"}

\* C10 as stated: success only if the declared sizes sum to the length of
\* the payload; a greater sum fails with CorruptEntryError at the first
\* entry that runs past the end, a smaller one with TrailingDataError after
\* the last entry.
C10_SizeSum ==
  ExtractDone =>
    /\ ext.outcome.status = "ok" =>
         DeclaredSum(Len(ext.files_meta)) = Len(ext.payload_bytes)
    /\ DeclaredSum(Len(ext.files_meta)) > Len(ext.payload_bytes) =>
         /\ ext.outcome.err = "CorruptEntryError"
         /\ ext.index = FirstOverrun
    /\ DeclaredSum(Len(ext.files_meta)) < Len(ext.payload_bytes) =>
         /\ ext.outcome.err = "TrailingDataError"
         /\ ext.index = Len(ext.files_meta) + 1

\* C10, amended: as above, unless a write was refused at an earlier entry
\* (the overwrite declined, or the name a directory), in which case the
\* call fails there with that error; in no case of a mismatch is a list
\* returned.
C10_SizeSumOrRefused ==
  ExtractDone =>
    /\ ext.outcome.status = "ok" =>
         DeclaredSum(Len(ext.files_meta)) = Len(ext.payload_bytes)
    /\ DeclaredSum(Len(ext.files_meta)) > Len(ext.payload_bytes) =>
         \/ /\ ext.outcome.err = "CorruptEntryError"
            /\ ext.outcome.line = 269
            /\ ext.index = FirstOverrun
         \/ /\ WriteRefused
            /\ ext.index < FirstOverrun
    /\ DeclaredSum(Len(ext.files_meta)) < Len(ext.payload_bytes) =>
         \/ /\ ext.outcome.err = "TrailingDataError"
            /\ ext.index = Len(ext.files_meta) + 1
            /\ Len(ext.extracted_paths) = Len(ext.files_meta)
         \/ /\ WriteRefused
            /\ ext.index <= Len(ext.files_meta)

\* extract_file wrote the first entry and failed at the second, whose
\* slice runs past the end of the payload.
C10_Witness ==
  /\ ExtractDone
  /\ DeclaredSum(Len(ext.files_meta)) > Len(ext.payload_bytes)
  /\ ext.outcome.err = "CorruptEntryError"
  /\ ext.index = 2
  /\ Len(ext.extracted_paths) = 1

\* An entry as the format describes it: an object whose "filename" is a
\* JSON string and whose "size" is a JSON integer that is not negative.
EntryOfFormat(m) ==
  /\ m.t = "dict"
  /\ dict_get(m, K_filename).t = "str"
  /\ dict_get(m, K_size).t = "int"
  /\ dict_get(m, K_size).v >= 0

\* The sum of the sizes of the first k entries.
RECURSIVE OffsetAfter(_)
OffsetAfter(k) ==
  IF k = 0 THEN 0
  ELSE OffsetAfter(k - 1) + int_of(dict_get(ext.files_meta[k], K_size))

\* Entry k is the first malformed one: every entry before it is of the
\* format and lies in the payload, and entry k is not of the format or
\* runs past the end of the payload.
FirstMalformed(k) ==
  /\ \A j \in 1..(k - 1) :
       /\ EntryOfFormat(ext.files_meta[j])
       /\ OffsetAfter(j) <= Len(ext.payload_bytes)
  /\ \/ ~EntryOfFormat(ext.files_meta[k])
     \/ OffsetAfter(k) > Len(ext.payload_bytes)

\* The paths of the files that differ from what they were at the call.
ChangedPaths ==
  {p \in DOMAIN fs : p \notin DOMAIN ext.pre \/ fs[p] # ext.pre[p]}

PathsOf(paths) == {resolve(paths[i]) : i \in 1..Len(paths)}

\* The call stopped at entry k having written the k - 1 entries before it
\* and nothing else.
StoppedAt(k) ==
  /\ ext.index = k
  /\ Len(ext.extracted_paths) = k - 1
  /\ ChangedPaths \subseteq PathsOf(ext.extracted_paths)
  /\ DOMAIN ext.pre \subseteq DOMAIN fs

\* C11 as stated: when extract_file reaches a malformed entry (one that is
\* no object with a string "filename" and an integer "size", or whose size
\* is negative or more than what is left of the payload), it fails with
\* CorruptEntryError at that entry, and neither that entry nor a later one
\* is written.
C11_CorruptEntry ==
  \A k \in 1..Len(ext.files_meta) :
    (pc = "idle" /\ FirstMalformed(k) /\ ~WriteRefused) =>
      /\ ext.outcome.err = "CorruptEntryError"
      /\ StoppedAt(k)

\* The same for the entries that are objects whose "size" is not a JSON
\* boolean.
C11_CorruptEntryObjects ==
  \A k \in 1..Len(ext.files_meta) :
    (/\ pc = "idle" /\ FirstMalformed(k) /\ ~WriteRefused
     /\ ext.files_meta[k].t = "dict"
     /\ dict_get(ext.files_meta[k], K_size).t # "bool") =>
      /\ ext.outcome.err = "CorruptEntryError"
      /\ StoppedAt(k)

\* The metadata the locator returned to the call.
MetadataFound == locate_embedded_chunks(ext.data).metadata

\* No pair of the object has the key.
Absent(m, key) == \A i \in 1..Len(m.v) : m.v[i].k # key

\* The current shape of the format: an object whose "files" is a list
\* that is not empty.
CurrentShape(m) ==
  /\ m.t = "dict"
  /\ dict_get(m, K_files).t = "list"
  /\ dict_get(m, K_files).v # <<>>

\* The legacy shape of the format: an object with a string "filename" and
\* an integer "size", whose "files" is absent or the empty list.
LegacyShape(m) ==
  /\ m.t = "dict"
  /\ dict_get(m, K_filename).t = "str"
  /\ dict_get(m, K_size).t \in {"int", "bool"}
  /\ \/ Absent(m, K_files)
     \/ dict_get(m, K_files) = JList(<<>>)

\* extract_file has finished on a file in which the locator found a record.
RecordFound ==
  /\ pc = "idle"
  /\ ext.called
  /\ ext.marker_index >= 0

NothingWritten == ChangedPaths = {} /\ DOMAIN ext.pre = DOMAIN fs

\* C12 as stated: when the metadata the locator returns has neither the
\* current nor the legacy shape, values that are no objects included,
\* extract_file fails with MetadataError and writes no file.
C12_MetadataError ==
  (RecordFound /\ ~CurrentShape(MetadataFound) /\ ~LegacyShape(MetadataFound)) =>
    /\ ext.outcome.err = "MetadataError"
    /\ NothingWritten

\* The same for the objects whose "files" is absent or a list.
C12_MetadataErrorObjects ==
  (/\ RecordFound /\ ~CurrentShape(MetadataFound) /\ ~LegacyShape(MetadataFound)
   /\ MetadataFound.t = "dict"
   /\ \/ Absent(MetadataFound, K_files)
      \/ dict_get(MetadataFound, K_files).t = "list") =>
    /\ ext.outcome.err = "MetadataError"
    /\ NothingWritten

\* Whatever the metadata, a call that fails before its loop writes no file.
C12_NoFileWritten ==
  (RecordFound /\ ext.files_meta = <<>>) =>
    /\ ext.outcome.status = "error"
    /\ NothingWritten

\* The metadata is an object with the legacy fields: a string "filename"
\* and an integer "size".
HasLegacyFields(m) ==
  /\ m.t = "dict"
  /\ dict_get(m, K_filename).t = "str"
  /\ dict_get(m, K_size).t = "int"

\* The call decoded the legacy fields: its file list is the single entry
\* made of them.
LegacyUsed(m) ==
  ext.files_meta = <<Entry(dict_get(m, K_filename), dict_get(m, K_size))>>

\* C13 as stated: the legacy fields are decoded as a one-element list if
\* and only if "files" is absent or the empty list; with any other
\* "files", a list that is not empty or a value that is no list, they are
\* not used.
C13_LegacyIff ==
  (RecordFound /\ HasLegacyFields(MetadataFound)) =>
    (LegacyUsed(MetadataFound) <=>
       \/ Absent(MetadataFound, K_files)
       \/ dict_get(MetadataFound, K_files) = JList(<<>>))

\* What the code does: the legacy fields are used unless "files" is a
\* list that is not empty.
C13_LegacyUnlessList ==
  (RecordFound /\ HasLegacyFields(MetadataFound)) =>
    (LegacyUsed(MetadataFound) <=> ~CurrentShape(MetadataFound))

\* C14: when the overwrite of an existing target is declined at entry k,
\* extract_file fails there with FileExistsError and changes no file: the
\* target keeps its bytes and the files written for the entries before k
\* stay as written; the call has then written the k - 1 entries before k
\* and nothing else.
C14_Declined ==
  /\ [](ext.outcome.err = "FileExistsError" =>
          /\ pc = "idle"
          /\ ext.outcome.exc = "FileExistsError"
          /\ ext.answers # <<>>
          /\ ~ext.answers[Len(ext.answers)]
          /\ StoppedAt(ext.index))
  /\ [][(pc = "extract_ask" /\ ext'.answers = Append(ext.answers, FALSE)) =>
          /\ ext'.outcome.err = "FileExistsError"
          /\ fs' = fs
          /\ ext'.index = ext.index
          /\ ext'.extracted_paths = ext.extracted_paths]_vars

\* The overwrite of X/a, which held the byte 3, was declined at the second
\* entry, after the first was written to X/b.
C14_Witness ==
  /\ ext.outcome.err = "FileExistsError"
  /\ ext.index = 2
  /\ ext.extracted_paths = <<PathOf("X", N_b)>>
  /\ ext.output_file = PathOf("X", N_a)
  /\ fs[PathOf("X", N_a)] = <<3>>
  /\ fs[PathOf("X", N_b)] = <<>>

\* The name of a file held by a directory itself: not empty, without a
\* separator, and neither "." nor "..".
ChildName(n) ==
  /\ n # <<>>
  /\ n \notin {DOT, DOTDOT}
  /\ \A i \in 1..Len(n) : n[i] # SEP

\* The part of the stored filename after its last separator.
AfterLastSep(name) ==
  LET seps == {i \in 1..Len(name) : name[i] = SEP}
  IN  SubSeq(name, MaxOr(seps, 0) + 1, Len(name))

\* The step writes the entry at hand.
WritesEntry == Len(ext'.extracted_paths) = Len(ext.extracted_paths) + 1

\* C15: whatever filename an entry stores, the file extract_file writes for
\* it is a direct child of the output directory, named by what follows the
\* last separator of the stored name, or by the placeholder numbered with
\* the entry's position when nothing follows; no other file changes, and
\* no file changes in any other step of the call.
C15_DirectChild ==
  [][(pc \in {"extract_loop", "extract_ask"}) =>
       IF WritesEntry
       THEN LET p      == ext'.extracted_paths[Len(ext'.extracted_paths)]
                stored == dict_get(ext.files_meta[ext.index], K_filename).v
            IN  /\ p.d = ext.target_dir
                /\ ChildName(p.n)
                /\ p.n = IF AfterLastSep(stored) = <<>>
                         THEN PLACEHOLDER \o dumps_nat(ext.index)
                         ELSE AfterLastSep(stored)
                /\ DOMAIN fs' = DOMAIN fs \cup {resolve(p)}
                /\ \A q \in DOMAIN fs : q # resolve(p) => fs'[q] = fs[q]
       ELSE fs' = fs]_vars

\* The entries "s/n" and "s/" were written to X/n and X/fichier_cache_2.
C15_Witness ==
  /\ ext.outcome.status = "ok"
  /\ ext.extracted_paths =
       <<PathOf("X", N_n), PathOf("X", PLACEHOLDER \o <<50>>)>>
  /\ fs[PathOf("X", N_n)] = <<7>>
  /\ fs[PathOf("X", PLACEHOLDER \o <<50>>)] = <<8>>

SliceOf(k) ==
  SubSeq(ext.payload_bytes, OffsetAfter(k - 1) + 1, OffsetAfter(k))

\* The path entry k is written to.
PathOfEntry(k) ==
  PathOf(ext.target_dir,
         base_name_of(dict_get(ext.files_meta[k], K_filename).v, k))

\* C17: every entry written receives PAYLOAD[s : s + size], s being the sum
\* of the sizes of the entries before it, an entry of size 0 an empty
\* file; a call that succeeds has written every entry, its slices cover
\* the payload, the list it returns holds one path per entry in the stored
\* order, and each of these files holds the slice of the last entry
\* written to it.
C17_Slices ==
  /\ [][(pc \in {"extract_loop", "extract_ask"} /\ WritesEntry) =>
          /\ ext'.extracted_paths = Append(ext.extracted_paths, PathOfEntry(ext.index))
          /\ fs'[resolve(PathOfEntry(ext.index))] = SliceOf(ext.index)
          /\ Len(SliceOf(ext.index)) =
               int_of(dict_get(ext.files_meta[ext.index], K_size))]_vars
  /\ []((pc = "idle" /\ ext.outcome.status = "ok") =>
          /\ Len(ext.extracted_paths) = Len(ext.files_meta)
          /\ OffsetAfter(Len(ext.files_meta)) = Len(ext.payload_bytes)
          /\ \A i \in 1..Len(ext.files_meta) :
               /\ ext.extracted_paths[i] = PathOfEntry(i)
               /\ (\A j \in (i + 1)..Len(ext.files_meta) :
                     PathOfEntry(j) # PathOfEntry(i)) =>
                    fs[resolve(PathOfEntry(i))] = SliceOf(i))

\* The entries "a" and "s/n", of one byte each, were written to X/a and
\* X/n: the first byte of the payload and the second.
C17_Witness ==
  /\ pc = "idle"
  /\ ext.outcome.status = "ok"
  /\ ext.extracted_paths = <<PathOf("X", N_a), PathOf("X", N_n)>>
  /\ fs[PathOf("X", N_a)] = <<7>>
  /\ fs[PathOf("X", N_n)] = <<8>>

\* The step is a call of extract_file.
ExtractCalled ==
  /\ budget' # budget
  /\ budget \ budget' \subseteq {"extract", "extract again"}

\* C18: a call of extract_file on a path that names no file fails with
\* NotFoundError and creates no directory; on a file, it fails with
\* NotADirectoryError when the output path exists and is no directory, and
\* else creates the output directory if it is absent and reads the file.
\* Both failures come before the file is read, and the step writes no file.
C18_Preconditions ==
  [][ExtractCalled =>
       /\ fs' = fs
       /\ IF resolve(ext'.stego_file) \notin DOMAIN fs
          THEN /\ ext'.outcome.err = "NotFoundError"
               /\ ext'.outcome.exc = "FileNotFoundError"
               /\ dirs' = dirs
               /\ ext'.data = <<>>
               /\ pc' = "idle"
          ELSE IF dir_exists(ext'.target_dir) /\ ~is_dir(ext'.target_dir)
          THEN /\ ext'.outcome.err = "NotADirectoryError"
               /\ ext'.outcome.exc = "NotADirectoryError"
               /\ dirs' = dirs
               /\ ext'.data = <<>>
               /\ pc' = "idle"
          ELSE /\ dirs' = dirs \cup {resolve_dir(ext'.target_dir)}
               /\ ext'.data = fs[resolve(ext'.stego_file)]
               /\ ext'.outcome.err \notin {"NotFoundError", "NotADirectoryError"}]_vars

\* extract_file was called on a path that names no file, with the output
\* directory "X": it raised NotFoundError and "X" does not exist.
C18_Witness ==
  /\ ext.outcome.err = "NotFoundError"
  /\ ext.target_dir = "X"
  /\ "X" \notin dirs

\* The files of directory d: name -> bytes.
FilesIn(files, d) ==
  [n \in {p.n : p \in {q \in DOMAIN files : q.d = d}} |-> files[PathOf(d, n)]]

\* The names of the paths a call returned or had written when it failed.
NamesOf(paths) == [i \in 1..Len(paths) |-> paths[i].n]

\* extract_file has been called twice and has finished twice, on the same
\* bytes, into two different directories that held no file when called.
ExtractedTwice ==
  /\ pc = "idle"
  /\ prev.called
  /\ ext.called
  /\ ext.data = prev.data
  /\ ext.data # <<>>
  /\ ext.target_dir # prev.target_dir
  /\ FilesIn(prev.pre, prev.target_dir) = <<>>
  /\ FilesIn(ext.pre, ext.target_dir) = <<>>

C20_NoEntryLost ==
  (/\ pc = "idle"
   /\ ext.outcome.status = "ok"
   /\ FilesIn(ext.pre, ext.target_dir) = <<>>) =>
    \A i \in 1..Len(ext.extracted_paths) :
      fs[resolve(ext.extracted_paths[i])] = SliceOf(i)

\* The same for the file lists whose base names differ from each other.
C20_NoEntryLostDistinct ==
  (/\ pc = "idle"
   /\ ext.outcome.status = "ok"
   /\ FilesIn(ext.pre, ext.target_dir) = <<>>
   /\ \A i, j \in 1..Len(ext.files_meta) :
        i # j => PathOfEntry(i) # PathOfEntry(j)) =>
    \A i \in 1..Len(ext.extracted_paths) :
      fs[resolve(ext.extracted_paths[i])] = SliceOf(i)

\* Entry k passed the checks of lines 261-269: its filename is a str, its
\* size an int that is not negative, and its slice lies in the payload.
Validated(k) ==
  /\ is_dict(ext.files_meta[k])
  /\ is_str(dict_get(ext.files_meta[k], K_filename))
  /\ is_int(dict_get(ext.files_meta[k], K_size))
  /\ int_of(dict_get(ext.files_meta[k], K_size)) >= 0
  /\ OffsetAfter(k) <= Len(ext.payload_bytes)

\* The step asks for an overwrite decision.
AsksNow == pc \in {"extract_loop", "extract_ask"} /\ ext'.asked # ext.asked

\* The target of the entry at hand exists.
TargetExists == path_exists(PathOfEntry(ext.index))

\* C21: the overwrite decision for entry k is requested only after the
\* entries before k were written and entry k passed its checks, only when
\* the target of entry k exists, at most once per entry, and before entry k
\* is written: the request changes no file, and an entry whose target
\* exists is written only in answer to its request; an entry whose target
\* does not exist is written without a request.
C21_AskOrder ==
  /\ [][AsksNow =>
          /\ pc = "extract_loop"
          /\ pc' = "extract_ask"
          /\ Len(ext.extracted_paths) = ext.index - 1
          /\ \A j \in 1..ext.index : Validated(j)
          /\ \A j \in 1..(ext.index - 1) :
               /\ ext.extracted_paths[j] = PathOfEntry(j)
               /\ resolve(PathOfEntry(j)) \in DOMAIN fs
          /\ TargetExists
          /\ ext'.asked = Append(ext.asked, PathOfEntry(ext.index))
          /\ ext'.answers = ext.answers
          /\ ext'.index = ext.index
          /\ ext'.extracted_paths = ext.extracted_paths
          /\ fs' = fs]_vars
  /\ [](/\ Len(ext.asked) <= Len(ext.extracted_paths) + 1
        /\ Len(ext.asked) = Len(ext.answers) + (IF pc = "extract_ask" THEN 1 ELSE 0)
        /\ pc = "extract_loop" => Len(ext.asked) <= Len(ext.extracted_paths))
  /\ [][(pc \in {"extract_loop", "extract_ask"} /\ WritesEntry) =>
          /\ ext'.asked = ext.asked
          /\ IF TargetExists
             THEN /\ pc = "extract_ask"
                  /\ ext.asked[Len(ext.asked)] = PathOfEntry(ext.index)
                  /\ ext'.answers = Append(ext.answers, TRUE)
             ELSE /\ pc = "extract_loop"
                  /\ ext'.answers = ext.answers]_vars
  /\ [][(/\ pc = "extract_loop"
         /\ ext.index <= Len(ext.files_meta)
         /\ \A j \in 1..ext.index : Validated(j)
         /\ ~TargetExists) =>
          /\ WritesEntry
          /\ ext'.asked = ext.asked]_vars

\* The first entry went to X/b, which did not exist, without a request;
\* the second was asked for once, X/a holding the byte 3, and written on
\* the answer yes.
C21_Witness ==
  /\ pc = "extract_loop"
  /\ ext.index = 3
  /\ ext.extracted_paths = <<PathOf("X", N_b), PathOf("X", N_a)>>
  /\ ext.asked = <<PathOf("X", N_a)>>
  /\ ext.answers = <<TRUE>>
  /\ ext.pre[PathOf("X", N_a)] = <<3>>
  /\ fs[PathOf("X", N_a)] = <<7>>

====
